---- MODULE Spec2Model ----
(***************************************************************************)
(* Reminder scheduler of the task manager server (server.js): the task    *)
(* store, the reminders map, the armed timers and their callbacks, the    *)
(* delivery fan-out and the task routes that drive them.                  *)
(*                                                                         *)
(* Instants are whole seconds since server start; timer delays are kept   *)
(* in milliseconds as the code passes them to setTimeout.  Every await of *)
(* a handler is a step boundary; a database statement and the             *)
(* continuation of its callback are one step.                             *)
(***************************************************************************)
EXTENDS Integers, Sequences, FiniteSets, TLC

\* ---- bounds of the model ----
MaxTasks == 2
MaxTimers == 3
MaxReqs == 2
MaxTicks == 2
MaxSubs == 2
MaxOps == 3
MaxParses == 1

\* ---- program constants ----
MsPerSec == 1000
ShortDelaySec == 5
MAX_DELAY == 2147483647

LeadSec == 60 * 60
\* smallest whole number of seconds that is not below MAX_DELAY milliseconds
CeilSec == (MAX_DELAY \div MsPerSec) + 1

\* a due date as a request or a row carries it: a valid instant, null, a
\* string that does not parse as a date, or (in a request body) nothing
Date(v) == [k |-> "date", v |-> v]
Null == [k |-> "null", v |-> 0]
Invalid == [k |-> "invalid", v |-> 0]
Undefined == [k |-> "undefined", v |-> 0]
IsDate(d) == d.k = "date"

\* a free text, trimmed: the words left when its date phrase is taken out, and
\* the phrase; a title is a text too
Text(rest, phrase) == [rest |-> rest, phrase |-> phrase]

\* String.prototype.trim: a text of white space only becomes the empty string
Trim(title) == IF title.rest = " " THEN Text("", title.phrase) ELSE title

\* !title || !title.trim()
Blank(title) == Trim(title).rest = "" /\ title.phrase = "none"

\* the title of a task whose request gave one, and the title member a request
\* body does not have
DefaultTitle == Text("call mom", "none")
NoTitle == Text("", "undefined")

TaskIds == 1..MaxTasks
TimerIds == 1..MaxTimers
Slots == 1..MaxReqs
Endpoints == 1..MaxSubs

\* due instants a request may carry: two hours after server start, and further
\* out than the setTimeout ceiling allows; the clock advances by an hour or by
\* the ceiling, so each is in turn far, within the hour and overdue
FarDue == CeilSec + 2 * LeadSec
DueDates == {2 * LeadSec, FarDue}
Steps == {LeadSec, CeilSec}

VARIABLES
  phase,             \* "init" before startServer ran, then "running",
                     \* "closing" from SIGINT on, "exited" after process.exit
  cfg,               \* environment: email transporter, VAPID keys, timezone
  now,               \* new Date(), in seconds
  ticks,             \* number of clock advances so far
  store,             \* tasks table: id -> row, for the ids that have a row
  nextId,            \* ids handed out so far (uuidv4 never repeats)
  reminders,         \* Map<taskId, Timeout>, for the keys it holds
  timers,            \* Timeout objects that are armed or whose callback runs
  nextTimer,         \* identity of the next Timeout object
  lastArmed,         \* per task, the Timeout armed most recently
  pushSubscriptions, \* array of push subscriptions
  nextSub,           \* identity of the next subscription object
  ops,               \* requests received so far
  reqs,              \* requests suspended between their read and their write,
                     \* with the row they read and whether they started alone
  run,               \* per task, how many of its last requests in a row were updates,
                     \* overlapped by no other request, that rescheduled it while
                     \* it was not completed and due more than an hour ahead
  ev,                \* the step taken last
  tasks              \* the frontend's tasks state: the ids of its entries, in order

vars == <<phase, cfg, now, ticks, store, nextId, reminders, timers, nextTimer,
          lastArmed, pushSubscriptions, nextSub, ops, reqs, run, ev, tasks>>

Min(a, b) == IF a <= b THEN a ELSE b
Max(a, b) == IF a >= b THEN a ELSE b

\* Math.min(sec * 1000, capMs), evaluated without leaving the integer range
MinMs(sec, capMs) ==
  IF sec > capMs \div MsPerSec THEN capMs ELSE sec * MsPerSec

\* true when a delay of delayMs milliseconds has elapsed after `elapsed` seconds
Expired(elapsed, delayMs) ==
  elapsed >= (delayMs \div MsPerSec) + (IF delayMs % MsPerSec = 0 THEN 0 ELSE 1)

\* f without key k, and f with key k set to v
Without(f, k) == [x \in DOMAIN f \ {k} |-> f[x]]
With(f, k, v) == [x \in DOMAIN f \cup {k} |-> IF x = k THEN v ELSE f[x]]
Empty == [x \in {} |-> 0]

\* a Timeout and the callback it runs: st is "armed", then "email" or "push"
\* while sendReminder awaits a send; snap is the copy of pushSubscriptions the
\* push loop iterates and idx its position; bad holds the subscriptions whose
\* send failed in this call, and solo tells that meanwhile no registration
\* was added and no other call's send failed
NoTimer ==
  [id |-> 0, task |-> 0, title |-> Text("", "none"), due |-> 0, armedAt |-> 0,
   raw |-> 0, delay |-> 0,
   st |-> "none", snap |-> <<>>, idx |-> 0, bad |-> {}, solo |-> TRUE]

\* a request body of POST /api/push/subscribe: none, or an object whose
\* endpoint is absent (0) or present
NoBody == [k |-> "missing", endpoint |-> 0]
Descriptor(e) == [k |-> "object", endpoint |-> e]

\* the step taken last: the operation, the task it was about, the Timeout whose
\* callback ran, whether the reminders map held the task before the step, and
\* whether the send (or sendReminder itself) that ended a delivery failed; for a
\* request that is answered at once, its body and the status of the answer
Event(op, task, timer, had, failed) ==
  [op |-> op, task |-> task, timer |-> timer, had |-> had, failed |-> failed,
   body |-> NoBody, status |-> 0]

Answer(op, body, had, status) ==
  [Event(op, 0, NoTimer, had, FALSE) EXCEPT !.body = body, !.status = status]

\* a step no property asks about
Idle == Event("idle", 0, NoTimer, FALSE, FALSE)

\* ---- scheduler ----

\* clearTimeout(t): an armed Timeout is disarmed, one that already fired is left
ClearTimeout(tms, t) ==
  {tm \in tms : ~(tm.id = t /\ tm.st = "armed")}

\* cancelReminder that, finding no map entry, clears whatever is armed for the task
cancelReminderSweep(tms, rem, taskId) ==
  IF taskId \in DOMAIN rem
    THEN [timers |-> ClearTimeout(tms, rem[taskId]),
          reminders |-> Without(rem, taskId)]
    ELSE [timers |-> {tm \in tms : ~(tm.task = taskId /\ tm.st = "armed")},
          reminders |-> rem]

cancelReminder(tms, rem, taskId) ==
  IF taskId \in DOMAIN rem
    THEN [timers |-> ClearTimeout(tms, rem[taskId]),
          reminders |-> Without(rem, taskId)]
    ELSE [timers |-> tms, reminders |-> rem]

\* RawDelay with the test delayMs < 0 in place of delayMs <= 0
RawDelayStrict(due, t) ==
  LET delay == (due - LeadSec) - t IN
  IF due > t /\ delay < 0 THEN ShortDelaySec ELSE delay

\* delayMs before the clamp, in seconds: target - now, or 5s within the hour
RawDelay(due, t) ==
  LET delay == (due - LeadSec) - t IN
  IF due > t /\ delay <= 0 THEN ShortDelaySec ELSE delay

\* ArmedDelay with the ceiling written as 2 ** 30 - 1
ArmedDelayLowCap(rawSec) ==
  Max(0, MinMs(rawSec, MAX_DELAY \div 2))

\* Math.max(0, Math.min(delayMs, MAX_DELAY))
ArmedDelay(rawSec) ==
  Max(0, MinMs(rawSec, MAX_DELAY))

\* scheduleReminder returns at once for a task it will not look at
Ineligible(task) ==
  task.dueDate = Null \/ task.completed \/ ~IsDate(task.dueDate)

\* a task that is not completed and due more than an hour after t
FarAhead(task, t) ==
  ~Ineligible(task) /\ task.dueDate.v - LeadSec > t

\* scheduleReminder reaches setTimeout
Arms(task, t) ==
  ~Ineligible(task) /\ task.dueDate.v > t

NewTimer(id, task, t) ==
  [id |-> id, task |-> task.id, title |-> task.title, due |-> task.dueDate.v,
   armedAt |-> t,
   raw |-> RawDelay(task.dueDate.v, t),
   delay |-> ArmedDelay(RawDelay(task.dueDate.v, t)),
   st |-> "armed", snap |-> <<>>, idx |-> 0, bad |-> {}, solo |-> TRUE]

\* sched is [timers, reminders, nextTimer, lastArmed]
scheduleReminder(sched, task, replace, t) ==
  IF Ineligible(task) THEN sched
  ELSE
    LET c == IF replace
               THEN cancelReminder(sched.timers, sched.reminders, task.id)
               ELSE [timers |-> sched.timers, reminders |-> sched.reminders]
    IN
    IF task.dueDate.v <= t
      THEN [sched EXCEPT !.timers = c.timers, !.reminders = c.reminders]
      ELSE [timers |-> c.timers \cup {NewTimer(sched.nextTimer, task, t)},
            reminders |-> With(c.reminders, task.id, sched.nextTimer),
            nextTimer |-> sched.nextTimer + 1,
            lastArmed |-> With(sched.lastArmed, task.id, sched.nextTimer)]

Sched ==
  [timers |-> timers, reminders |-> reminders, nextTimer |-> nextTimer,
   lastArmed |-> lastArmed]

SetSched(s) ==
  /\ timers' = s.timers
  /\ reminders' = s.reminders
  /\ nextTimer' = s.nextTimer
  /\ lastArmed' = s.lastArmed

Task(id, row) ==
  [id |-> id, title |-> row.title, dueDate |-> row.dueDate,
   completed |-> row.completed]
TitledRow(title, dueDate, completed) ==
  [title |-> title, dueDate |-> dueDate, completed |-> completed]
Row(dueDate, completed) == TitledRow(DefaultTitle, dueDate, completed)

\* ---- delivery ----

\* the callbacks in their push loop learn that the registry was written
Overlapped(tms) ==
  {IF x.st = "push" THEN [x EXCEPT !.solo = FALSE] ELSE x : x \in tms}

\* the other Timeouts after a step of tm's callback; a failed push send has
\* written the registry
Others(tm, failed) ==
  LET rest == {x \in timers : x.id # tm.id}
  IN IF tm.st = "push" /\ failed THEN Overlapped(rest) ELSE rest

\* Finish with reminders.delete inside the try block, after sendReminder
FinishOnSuccess(tm, failed) ==
  /\ timers' = Others(tm, failed)
  /\ reminders' = IF failed THEN reminders ELSE Without(reminders, tm.task)
  /\ ev' = Event("done", tm.task, tm, tm.task \in DOMAIN reminders, failed)

\* the finally block of the timer callback: reminders.delete(task.id)
Finish(tm, failed) ==
  /\ timers' = Others(tm, failed)
  /\ reminders' = Without(reminders, tm.task)
  /\ ev' = Event("done", tm.task, tm, tm.task \in DOMAIN reminders, failed)

\* AfterEmail that leaves sendReminder when the email send failed
AfterEmailAbort(tm, failed) ==
  IF cfg.push /\ Len(pushSubscriptions) > 0 /\ ~failed
    THEN /\ timers' = {x \in timers : x.id # tm.id} \cup
                        {[tm EXCEPT !.st = "push", !.snap = pushSubscriptions,
                                    !.idx = 1]}
         /\ reminders' = reminders
         /\ ev' = Event(IF tm.st = "armed" THEN "fire" ELSE "email", tm.task, tm,
                        tm.task \in DOMAIN reminders, failed)
    ELSE Finish(tm, failed)

\* sendReminder after the email block: the push block, which copies the
\* registry and awaits the first send, or the end
AfterEmail(tm, failed) ==
  IF cfg.push /\ Len(pushSubscriptions) > 0
    THEN /\ timers' = {x \in timers : x.id # tm.id} \cup
                        {[tm EXCEPT !.st = "push", !.snap = pushSubscriptions,
                                    !.idx = 1]}
         /\ reminders' = reminders
         /\ ev' = Event(IF tm.st = "armed" THEN "fire" ELSE "email", tm.task, tm,
                        tm.task \in DOMAIN reminders, failed)
    ELSE Finish(tm, failed)

\* the Timeout expires: the callback calls sendReminder(task, due)
FireStart(tm) ==
  /\ phase \in {"running", "closing"}
  /\ tm \in timers
  /\ tm.st = "armed"
  /\ Expired(now - tm.armedAt, tm.delay)
  /\ IF ~cfg.tzOk
       THEN Finish(tm, TRUE)
       ELSE IF cfg.email
         THEN /\ timers' = {x \in timers : x.id # tm.id} \cup
                             {[tm EXCEPT !.st = "email"]}
              /\ reminders' = reminders
              /\ ev' = Event("fire", tm.task, tm, tm.task \in DOMAIN reminders, FALSE)
         ELSE AfterEmail(tm, FALSE)
  /\ UNCHANGED <<tasks, run, ops, phase, cfg, now, ticks, store, nextId, nextTimer, lastArmed,
                 pushSubscriptions, nextSub, reqs>>

\* transporter.sendMail settles; a rejection is caught and logged
EmailDone(tm, ok) ==
  /\ phase # "exited"
  /\ tm \in timers
  /\ tm.st = "email"
  /\ AfterEmail(tm, ~ok)
  /\ UNCHANGED <<tasks, run, ops, phase, cfg, now, ticks, store, nextId, nextTimer, lastArmed,
                 pushSubscriptions, nextSub, reqs>>

RECURSIVE Filter(_, _)
\* pushSubscriptions.filter(s => s !== sub)
Filter(subs, sub) ==
  IF subs = <<>> THEN <<>>
  ELSE IF Head(subs) = sub THEN Filter(Tail(subs), sub)
  ELSE <<Head(subs)>> \o Filter(Tail(subs), sub)

\* the push loop leaving at the first send that fails
LoopEndsOnFailure(tm, ok) ==
  tm.idx >= Len(tm.snap) \/ ~ok

\* the for loop over the copy has no element left after snap[idx]
LoopEnds(tm, ok) ==
  tm.idx >= Len(tm.snap)

\* the catch block that only logs the failed send
PruneNever(subs, tm, ok) ==
  subs

\* the catch block filtering the copy it iterates in place of the registry
PruneFromCopy(subs, tm, ok) ==
  IF ok THEN subs ELSE Filter(tm.snap, tm.snap[tm.idx])

\* the registry after the send for snap[idx] settled: a rejection is caught
\* and pushSubscriptions = pushSubscriptions.filter(s => s !== sub)
Prune(subs, tm, ok) ==
  IF ok THEN subs ELSE Filter(subs, tm.snap[tm.idx])

\* webpush.sendNotification for snap[idx] settles; the loop awaits the next
\* send or sendReminder returns
PushDone(tm, ok) ==
  /\ tm \in timers
  /\ tm.st = "push"
  /\ pushSubscriptions' = Prune(pushSubscriptions, tm, ok)
  /\ LET me == [tm EXCEPT !.bad = IF ok THEN @ ELSE @ \cup {tm.snap[tm.idx]}]
     IN IF LoopEnds(tm, ok)
          THEN Finish(me, ~ok)
          ELSE /\ timers' = Others(tm, ~ok) \cup {[me EXCEPT !.idx = tm.idx + 1]}
               /\ reminders' = reminders
               /\ ev' = Event("push", tm.task, me, tm.task \in DOMAIN reminders, ~ok)
  /\ UNCHANGED <<tasks, run, ops, phase, cfg, now, ticks, store, nextId, nextTimer, lastArmed,
                 nextSub, reqs>>

\* the handler taking any object for a subscription
ValidDescriptorAny(body) ==
  body.k = "object"

\* the test (!sub || !sub.endpoint) of the subscribe handler, negated
ValidDescriptor(body) ==
  body.k = "object" /\ body.endpoint # 0

\* the handler pushing the descriptor without looking for its endpoint
RegisterAlways(subs, e, obj) ==
  Append(subs, [endpoint |-> e, obj |-> obj])

\* find by endpoint, push if none: the registry after a valid descriptor
Register(subs, e, obj) ==
  IF \E i \in 1..Len(subs) : subs[i].endpoint = e
    THEN subs
    ELSE Append(subs, [endpoint |-> e, obj |-> obj])

\* POST /api/push/subscribe: 400 for a body without endpoint, else the
\* descriptor is registered unless its endpoint is, and the answer is ok
Subscribe(body) ==
  /\ phase = "running"
  /\ IF ~ValidDescriptor(body)
       THEN /\ UNCHANGED <<pushSubscriptions, nextSub, timers>>
            /\ ev' = Answer("subscribe", body, FALSE, 400)
       ELSE LET after == Register(pushSubscriptions, body.endpoint, nextSub)
            IN /\ after # pushSubscriptions => nextSub <= MaxSubs
               /\ pushSubscriptions' = after
               /\ nextSub' = IF after # pushSubscriptions THEN nextSub + 1 ELSE nextSub
               /\ timers' = IF after # pushSubscriptions THEN Overlapped(timers) ELSE timers
               /\ ev' = Answer("subscribe", body,
                               \E i \in 1..Len(pushSubscriptions) :
                                 pushSubscriptions[i].endpoint = body.endpoint,
                               200)
  /\ UNCHANGED <<tasks, run, ops, phase, cfg, now, ticks, store, nextId, reminders,
                 nextTimer, lastArmed, reqs>>

\* ---- routes ----

\* the answer of PUT or DELETE /api/tasks/:id when getTask finds no row
NotFound(status) == Answer("missing", NoBody, FALSE, status)

\* the answer when the statement changes no row: updateTask and deleteTask
\* reject 'Task not found' and the handler's catch block answers
Rejected(status) == Answer("rejected", NoBody, FALSE, status)

\* the catch block rescheduling with the updates it could not write
WriteRejectedReschedules(sched, task) == scheduleReminder(sched, task, TRUE, now)

\* the scheduler after a rejected write: the await throws, so the call of
\* scheduleReminder or cancelReminder that follows it is not reached
WriteRejected(sched, task) == sched

\* the guard that keeps Timeout identities within the model's bound
CanSchedule(task) == Arms(task, now) => nextTimer <= MaxTimers

\* POST /api/tasks: the row is inserted and scheduleReminder(savedTask) runs
CreateTask(dueDate) ==
  /\ phase = "running"
  /\ ops < MaxOps
  /\ ops' = ops + 1
  /\ nextId <= MaxTasks
  /\ LET row == Row(dueDate, FALSE)
         task == Task(nextId, row)
     IN /\ CanSchedule(task)
        /\ store' = With(store, nextId, row)
        /\ SetSched(scheduleReminder(Sched, task, FALSE, now))
        /\ ev' = Event("create", nextId, NoTimer, FALSE, FALSE)
  /\ nextId' = nextId + 1
  /\ UNCHANGED <<tasks, run, phase, cfg, now, ticks, pushSubscriptions, nextSub, reqs>>

\* PUT /api/tasks/:id up to its first await: getTask(id)
UpdateRead(slot, id) ==
  /\ phase = "running"
  /\ ops < MaxOps
  /\ ops' = ops + 1
  /\ slot \notin DOMAIN reqs
  /\ IF id \in DOMAIN store
       THEN /\ reqs' = With(reqs, slot, [kind |-> "PUT", id |-> id,
                                         existing |-> store[id],
                                         solo |-> DOMAIN reqs = {}])
            /\ ev' = Idle
       ELSE /\ reqs' = reqs
            /\ ev' = NotFound(404)
  /\ UNCHANGED <<tasks, run, phase, cfg, now, ticks, store, nextId, reminders, timers,
                 nextTimer, lastArmed, pushSubscriptions, nextSub>>

\* the updates object of the PUT handler
Updates(existing, dueDate, completed) ==
  TitledRow(existing.title,
            IF dueDate # Undefined THEN dueDate ELSE existing.dueDate,
      IF completed = "undefined" THEN existing.completed ELSE completed = "true")

\* PUT /api/tasks/:id from updateTask on: the row is written and
\* scheduleReminder(updatedTask, true) runs; a missing row answers 404
PutWrite(slot, updates) ==
  /\ LET id == reqs[slot].id
         task == Task(id, updates)
     IN IF id \in DOMAIN store
          THEN /\ CanSchedule(task)
               /\ store' = [store EXCEPT ![id] = updates]
               /\ SetSched(scheduleReminder(Sched, task, TRUE, now))
               /\ ev' = Event("update", id, NoTimer, id \in DOMAIN reminders, FALSE)
               /\ run' = [run EXCEPT ![id] =
                            IF FarAhead(task, now) /\ reqs[slot].solo /\ DOMAIN reqs = {slot}
                              THEN Min(run[id] + 1, 2) ELSE 0]
          ELSE /\ UNCHANGED <<store, run>>
               /\ SetSched(WriteRejected(Sched, task))
               /\ ev' = Rejected(404)
  /\ reqs' = Without(reqs, slot)
  /\ UNCHANGED <<tasks, ops, phase, cfg, now, ticks, nextId, pushSubscriptions, nextSub>>

\* the PUT handler for a body with dueDate and completed only
UpdateWrite(slot, dueDate, completed) ==
  /\ slot \in DOMAIN reqs
  /\ reqs[slot].kind = "PUT"
  /\ PutWrite(slot, Updates(reqs[slot].existing, dueDate, completed))

\* DELETE /api/tasks/:id up to its first await: getTask(id)
DeleteRead(slot, id) ==
  /\ phase = "running"
  /\ ops < MaxOps
  /\ ops' = ops + 1
  /\ slot \notin DOMAIN reqs
  /\ IF id \in DOMAIN store
       THEN /\ reqs' = With(reqs, slot, [kind |-> "DELETE", id |-> id,
                                         existing |-> Row(Null, FALSE),
                                         solo |-> DOMAIN reqs = {}])
            /\ ev' = Idle
       ELSE /\ reqs' = reqs
            /\ ev' = NotFound(404)
  /\ UNCHANGED <<tasks, run, phase, cfg, now, ticks, store, nextId, reminders, timers,
                 nextTimer, lastArmed, pushSubscriptions, nextSub>>

\* DELETE /api/tasks/:id from deleteTask on: the row is removed and
\* cancelReminder(id) runs; a missing row rejects and answers 500
DeleteWrite(slot) ==
  /\ slot \in DOMAIN reqs
  /\ reqs[slot].kind = "DELETE"
  /\ LET id == reqs[slot].id
         c == cancelReminder(timers, reminders, id)
     IN IF id \in DOMAIN store
          THEN /\ store' = Without(store, id)
               /\ timers' = c.timers
               /\ reminders' = c.reminders
               /\ ev' = Event("delete", id, NoTimer, id \in DOMAIN reminders, FALSE)
               /\ run' = [run EXCEPT ![id] = 0]
          ELSE /\ UNCHANGED <<store, reminders, timers, run>>
               /\ ev' = Rejected(500)
  /\ reqs' = Without(reqs, slot)
  /\ UNCHANGED <<tasks, ops, phase, cfg, now, ticks, nextId, nextTimer, lastArmed,
                 pushSubscriptions, nextSub>>

\* ---- startup and the clock ----

\* the loop of startServer leaving after the first loaded task
ScheduleAllFirst(sched, rows, ids, t) ==
  IF ids = {} THEN sched
  ELSE LET id == CHOOSE x \in ids : \A y \in ids : x <= y
       IN IF ~rows[id].completed /\ rows[id].dueDate # Null
            THEN scheduleReminder(sched, Task(id, rows[id]), TRUE, t)
            ELSE sched

RECURSIVE ScheduleAll(_, _, _, _)
\* the loop of startServer over the loaded tasks
ScheduleAll(sched, rows, ids, t) ==
  IF ids = {} THEN sched
  ELSE LET id == CHOOSE x \in ids : \A y \in ids : x <= y
           next == IF ~rows[id].completed /\ rows[id].dueDate # Null
                     THEN scheduleReminder(sched, Task(id, rows[id]), TRUE, t)
                     ELSE sched
       IN ScheduleAll(next, rows, ids \ {id}, t)

\* startServer: getAllTasks resolved, reminders are scheduled, then app.listen
StartServer ==
  /\ phase = "init"
  /\ phase' = "running"
  /\ SetSched(ScheduleAll(Sched, store, DOMAIN store, now))
  /\ ev' = Event("start", 0, NoTimer, FALSE, FALSE)
  /\ UNCHANGED <<tasks, run, ops, cfg, now, ticks, store, nextId, pushSubscriptions, nextSub, reqs>>

\* time passes
Tick(d) ==
  /\ ticks < MaxTicks
  /\ now' = now + d
  /\ ticks' = ticks + 1
  /\ ev' = Idle
  /\ UNCHANGED <<tasks, run, ops, phase, cfg, store, nextId, reminders, timers, nextTimer,
                 lastArmed, pushSubscriptions, nextSub, reqs>>

\* ---- the server ----

BodyDueDates == {Undefined, Null} \cup {Date(d) : d \in DueDates}
RowDueDates == {Null} \cup {Date(d) : d \in DueDates}
BodyCompleted == {"undefined", "true", "false"}

\* the tasks table the server finds at start: empty, or one task due in two hours
InitStores ==
  {Empty, With(Empty, 1, Row(Date(2 * LeadSec), FALSE))}

\* sendReminder throws before it looks at a channel when the timezone is bad
Configs ==
  [email : BOOLEAN, push : BOOLEAN, tzOk : {TRUE}] \cup
  {[email |-> FALSE, push |-> FALSE, tzOk |-> FALSE]}

Init ==
  /\ phase = "init"
  /\ cfg \in {c \in Configs : ~c.push}
  /\ now = 0
  /\ ticks = 0
  /\ store \in InitStores
  /\ nextId = Cardinality(DOMAIN store) + 1
  /\ reminders = Empty
  /\ timers = {}
  /\ nextTimer = 1
  /\ lastArmed = Empty
  /\ pushSubscriptions = <<>>
  /\ nextSub = 1
  /\ ops = 0
  /\ reqs = Empty
  /\ run = [t \in TaskIds |-> 0]
  /\ ev = Idle
  /\ tasks = <<>>

Next ==
  \/ StartServer
  \/ \E d \in Steps : Tick(d)
  \/ \E d \in RowDueDates : CreateTask(d)
  \/ \E s \in Slots, id \in TaskIds : UpdateRead(s, id)
  \/ \E s \in Slots, d \in BodyDueDates, c \in BodyCompleted : UpdateWrite(s, d, c)
  \/ \E s \in Slots, id \in TaskIds : DeleteRead(s, id)
  \/ \E s \in Slots : DeleteWrite(s)
  \/ \E tm \in timers : FireStart(tm)
  \/ \E tm \in timers, ok \in BOOLEAN : EmailDone(tm, ok)

\* the scheduler with the email channel: no VAPID keys, so no push block
Spec == Init /\ [][Next]_vars

\* ---- properties ----

ArmedFor(t) == {tm \in timers : tm.task = t /\ tm.st = "armed"}

\* the step taken last called sendReminder for ev.timer
Started ==
  ev.op = "fire" \/ (ev.op = "done" /\ ev.timer.st = "armed")

\* a task id that was handed out and whose row is gone
Deleted(t) == t < nextId /\ t \notin DOMAIN store

\* C1: in every reachable state at most one reminder timer is armed (set and
\* neither fired nor cleared) per task id.
C1_AtMostOneArmedTimerPerTask ==
  \A t \in TaskIds : Cardinality(ArmedFor(t)) <= 1

\* C2: in every reachable state a task id that has a pending reminder (an entry
\* of the reminders map) is the id of a stored task that has a due date and is
\* not completed.
C2_PendingReminderOnlyForEligibleTask ==
  \A t \in DOMAIN reminders :
    /\ t \in DOMAIN store
    /\ store[t].dueDate # Null
    /\ ~store[t].completed

\* C3: once a delete of a task has returned success, no reminder timer is armed
\* for its id and no delivery for it starts.
C3_NothingArmedOrDeliveredAfterDelete ==
  /\ \A t \in TaskIds : Deleted(t) => ArmedFor(t) = {}
  /\ Started => ~Deleted(ev.task)

\* C4: a timer superseded by a later scheduling of the same task never
\* delivers: the timer whose callback calls sendReminder is the one armed most
\* recently for its task.
C4_OnlyLatestTimerDelivers ==
  Started => lastArmed[ev.task] = ev.timer.id

\* C5: an armed timer's callback runs once: a Timeout that has fired is never
\* armed again, and the step that ends its callback, whether the delivery
\* succeeded, threw or a send failed, arms nothing and leaves the task without
\* an entry in the reminders map.
C5_FireOnceAndEntryRemoved ==
  [][/\ \A tm \in timers : tm.st # "armed" =>
          \A x \in timers' : x.id = tm.id => x.st # "armed"
     /\ \A x \in timers' : x.st = "armed" /\ x \notin timers => x.id >= nextTimer
     /\ ev'.op = "done" =>
          /\ ev'.task \notin DOMAIN reminders'
          /\ \A x \in timers' : x.id # ev'.timer.id
          /\ nextTimer' = nextTimer
          /\ timers' \subseteq timers]_vars

\* C5 witness: a callback has ended after a failed delivery and removed the
\* entry the map held for its task.
C5_Witness ==
  ev.op = "done" /\ ev.failed /\ ev.had /\ ev.task \notin DOMAIN reminders

\* C6: right after the second of two update requests in a row that reschedule
\* the same eligible task (not completed, due more than an hour ahead), exactly
\* one timer is armed for the task, so that exactly one delivery follows.
C6_TwoReschedulesOneTimer ==
  (ev.op = "update" /\ run[ev.task] = 2) => Cardinality(ArmedFor(ev.task)) = 1

\* C7: a step that arms a timer at time now for a task due at D has D > now;
\* if D - 1h > now the delay before the clamp is D - 1h - now, and is armed
\* unchanged when it is below the ceiling; if D - 1h <= now the delay is the
\* fixed 5 seconds.  A create or update that schedules a task that is not
\* completed and has D <= now arms no timer and leaves no reminder entry.
C7_ArmedDelay ==
  [][/\ \A tm \in timers' :
          (tm.st = "armed" /\ tm.id >= nextTimer) =>
            /\ tm.armedAt = now
            /\ tm.due > now
            /\ tm.due - LeadSec > now =>
                 /\ tm.raw = tm.due - LeadSec - now
                 /\ tm.raw < CeilSec => tm.delay = tm.raw * MsPerSec
            /\ tm.due - LeadSec <= now => tm.delay = ShortDelaySec * MsPerSec
     /\ \A t \in DOMAIN store' :
          (/\ ev'.op \in {"create", "update"}
           /\ ev'.task = t
           /\ IsDate(store'[t].dueDate)
           /\ ~store'[t].completed) =>
            IF store'[t].dueDate.v <= now
              THEN /\ t \notin DOMAIN reminders'
                   /\ nextTimer' = nextTimer
                   /\ timers' \subseteq timers
              ELSE /\ nextTimer' = nextTimer + 1
                   /\ t \in DOMAIN reminders'
                   /\ reminders'[t] = nextTimer
                   /\ \E tm \in timers' :
                        tm.id = nextTimer /\ tm.task = t /\ tm.st = "armed"
                          /\ tm.due = store'[t].dueDate.v]_vars

\* C7 witness: a task due two hours after it was scheduled is armed with a one
\* hour delay.
C7_Witness ==
  \E tm \in timers :
    /\ tm.st = "armed"
    /\ tm.due - tm.armedAt = 2 * LeadSec
    /\ tm.delay = LeadSec * MsPerSec

\* C8: the delay handed to setTimeout is within 0 .. 2^31-1 milliseconds, and a
\* computed delay above 2^31-1 is armed as exactly 2^31-1.
C8_DelayClamped ==
  \A tm \in timers :
    /\ tm.delay >= 0
    /\ tm.delay <= MAX_DELAY
    /\ tm.raw >= CeilSec => tm.delay = MAX_DELAY

\* C8 witness: a timer whose computed delay exceeds the ceiling is armed.
C8_Witness ==
  \E tm \in timers : tm.st = "armed" /\ tm.raw >= CeilSec /\ tm.delay = MAX_DELAY

\* C9: for a task due more than an hour after it was scheduled, no delivery
\* starts before the due instant minus one hour.
C9_NoDeliveryBeforeLeadTime ==
  (Started /\ ev.timer.due - LeadSec > ev.timer.armedAt) =>
    now >= ev.timer.due - LeadSec

\* C10: cancelReminder for a task id without an entry leaves the reminders map
\* and the timers as they are, in itself and in the delete that calls it, and
\* cancelling twice leaves what cancelling once leaves.
C10_CancelAbsentIsNoOp ==
  [][/\ \A t \in TaskIds :
          LET once == cancelReminder(timers, reminders, t)
              twice == cancelReminder(once.timers, once.reminders, t)
          IN /\ twice = once
             /\ t \notin DOMAIN reminders =>
                  once = [timers |-> timers, reminders |-> reminders]
     /\ (ev'.op = "delete" /\ ~ev'.had) =>
          (timers' = timers /\ reminders' = reminders)]_vars

\* C10 witness: a delete has just cancelled the reminder of a task that had
\* none, while a timer was armed.
C10_Witness ==
  ev.op = "delete" /\ ~ev.had /\ \E tm \in timers : tm.st = "armed"

\* ---- startup over any tasks table ----

\* rows the tasks table may hold when the server starts
StartRows ==
  [title : {DefaultTitle}, dueDate : RowDueDates \cup {Invalid}, completed : BOOLEAN]

\* tasks tables of up to MaxTasks rows
StartStores ==
  UNION {[1..n -> StartRows] : n \in 0..MaxTasks}

InitStart ==
  /\ phase = "init"
  /\ cfg = [email |-> FALSE, push |-> FALSE, tzOk |-> TRUE]
  /\ now = 0
  /\ ticks = 0
  /\ store \in StartStores
  /\ nextId = Cardinality(DOMAIN store) + 1
  /\ reminders = Empty
  /\ timers = {}
  /\ nextTimer = 1
  /\ lastArmed = Empty
  /\ pushSubscriptions = <<>>
  /\ nextSub = 1
  /\ ops = 0
  /\ reqs = Empty
  /\ run = [t \in TaskIds |-> 0]
  /\ ev = Idle
  /\ tasks = <<>>

NextStart ==
  \/ StartServer
  \/ \E d \in Steps : Tick(d)
  \/ \E tm \in timers : FireStart(tm)

\* the server started at any instant over any tasks table
SpecStart == InitStart /\ [][NextStart]_vars

\* the tasks startup has to schedule: not completed, due at a valid instant
\* that is still ahead
DueAhead(t) ==
  /\ ~store[t].completed
  /\ IsDate(store[t].dueDate)
  /\ store[t].dueDate.v > now

\* C11: when startup scheduling has finished, the task ids with a pending
\* reminder are exactly the stored tasks that are not completed and due in the
\* future; each is armed once, at the start instant, with min(due - 1h - now,
\* 2^31-1 ms), or 5 s when due - 1h is not ahead; no other timer exists.
C11_StartupSchedulesEligible ==
  ev.op = "start" =>
    /\ DOMAIN reminders = {t \in DOMAIN store : DueAhead(t)}
    /\ \A t \in DOMAIN reminders :
         \E tm \in timers :
           /\ tm.id = reminders[t]
           /\ tm.task = t
           /\ tm.st = "armed"
           /\ tm.armedAt = now
           /\ tm.due = store[t].dueDate.v
           /\ LET ahead == tm.due - LeadSec - now
              IN tm.delay = IF ahead <= 0 THEN ShortDelaySec * MsPerSec
                            ELSE IF ahead >= CeilSec THEN MAX_DELAY
                            ELSE ahead * MsPerSec
    /\ \A tm \in timers :
         tm.task \in DOMAIN reminders /\ reminders[tm.task] = tm.id
    /\ Cardinality(timers) = Cardinality(DOMAIN reminders)

\* C11 witness: the server has started over two tasks that are not completed,
\* one due ahead with a pending reminder and one overdue with none.
C11_Witness ==
  /\ ev.op = "start"
  /\ \E t, u \in DOMAIN store :
       /\ DueAhead(t)
       /\ t \in DOMAIN reminders
       /\ ~store[u].completed
       /\ IsDate(store[u].dueDate)
       /\ store[u].dueDate.v <= now
       /\ u \notin DOMAIN reminders

\* ---- delivery with the push channel ----

\* request bodies of the subscribe route
Bodies == {NoBody, Descriptor(0)} \cup {Descriptor(e) : e \in Endpoints}

InitPush ==
  /\ phase = "init"
  /\ cfg \in {c \in Configs : c.push}
  /\ now = 0
  /\ ticks = 0
  /\ store \in InitStores
  /\ nextId = Cardinality(DOMAIN store) + 1
  /\ reminders = Empty
  /\ timers = {}
  /\ nextTimer = 1
  /\ lastArmed = Empty
  /\ pushSubscriptions = <<>>
  /\ nextSub = 1
  /\ ops = 0
  /\ reqs = Empty
  /\ run = [t \in TaskIds |-> 0]
  /\ ev = Idle
  /\ tasks = <<>>

NextPush ==
  \/ StartServer
  \/ \E d \in Steps : Tick(d)
  \/ \E d \in RowDueDates : CreateTask(d)
  \/ \E b \in Bodies : Subscribe(b)
  \/ \E tm \in timers : FireStart(tm)
  \/ \E tm \in timers, ok \in BOOLEAN : EmailDone(tm, ok)
  \/ \E tm \in timers, ok \in BOOLEAN : PushDone(tm, ok)

\* the server with VAPID keys set: tasks are created, subscriptions are
\* registered and reminders are delivered by email and push
SpecPush == InitPush /\ [][NextPush]_vars

\* the callback of Timeout id awaits a push send
InPush(tms, id) == \E x \in tms : x.id = id /\ x.st = "push"

\* the step taken last settled a push send of ev.timer
PushSettled(e) ==
  e.op = "push" \/ (e.op = "done" /\ e.timer.st = "push")

\* seq without the elements in set
Minus(seq, set) == SelectSeq(seq, LAMBDA s : s \notin set)

\* C12: in one fan-out every subscription that is in the registry when the push
\* loop starts gets exactly one send attempt, whichever sends fail: the loop
\* starts at the first element of a copy of the registry, moves by one element
\* each time a send settles, and sendReminder returns only after the last.
C12_EverySubscriptionAttemptedOnce ==
  [][/\ \A x \in timers' :
          x.st = "push" =>
            IF InPush(timers, x.id)
              THEN \E y \in timers :
                     /\ y.id = x.id
                     /\ x.snap = y.snap
                     /\ \/ x.idx = y.idx
                        \/ /\ x.idx = y.idx + 1
                           /\ ev'.op = "push"
                           /\ ev'.timer.id = x.id
                           /\ ev'.timer.idx = y.idx
              ELSE /\ x.snap = pushSubscriptions
                   /\ Len(x.snap) > 0
                   /\ x.idx = 1
     /\ \A y \in timers :
          (y.st = "push" /\ \A x \in timers' : x.id # y.id) =>
            /\ ev'.op = "done"
            /\ ev'.timer.id = y.id
            /\ y.idx = Len(y.snap)]_vars

\* C12 witness: a fan-out over two subscriptions has ended after its first
\* send failed.
C12_Witness ==
  /\ ev.op = "done"
  /\ ev.timer.st = "push"
  /\ Len(ev.timer.snap) = 2
  /\ ev.timer.snap[1] \in ev.timer.bad

C14_SendFailuresStayLocal ==
  [][/\ \A y \in timers :
          (y.st = "email" /\ ~\E x \in timers' : x.id = y.id /\ x.st = "email") =>
            IF cfg.push /\ Len(pushSubscriptions) > 0
              THEN \E x \in timers' :
                     /\ x.id = y.id
                     /\ x.st = "push"
                     /\ x.idx = 1
                     /\ x.snap = pushSubscriptions
              ELSE ev'.op = "done" /\ ev'.timer.id = y.id
     /\ ev'.op = "done" =>
          /\ {x.id : x \in timers'} = {x.id : x \in timers} \ {ev'.timer.id}
          /\ reminders' = Without(reminders, ev'.task)
          /\ nextTimer' = nextTimer
          /\ lastArmed' = lastArmed
          /\ store' = store]_vars

\* C14 witness: the email send has failed and the callback awaits a push send.
C14_Witness ==
  ev.op = "email" /\ ev.failed /\ InPush(timers, ev.timer.id)

\* C15: no two records of the registry have the same endpoint, and registering
\* a descriptor whose endpoint is registered leaves the registry as it is and
\* answers success.
C15_EndpointsUnique ==
  [][/\ \A i, j \in 1..Len(pushSubscriptions') :
          pushSubscriptions'[i].endpoint = pushSubscriptions'[j].endpoint => i = j
     /\ (/\ ev'.op = "subscribe"
         /\ \E i \in 1..Len(pushSubscriptions) :
              pushSubscriptions[i].endpoint = ev'.body.endpoint) =>
          /\ pushSubscriptions' = pushSubscriptions
          /\ ev'.status = 200]_vars

\* C15 witness: an endpoint has been registered a second time while the
\* registry holds two subscriptions.
C15_Witness ==
  ev.op = "subscribe" /\ ev.had /\ ev.status = 200 /\ Len(pushSubscriptions) = 2

\* C16: a registration without a body, or whose body has no endpoint, is
\* answered 400 and leaves the registry as it is; one with an endpoint is
\* answered success and its endpoint is registered.
C16_DescriptorNeedsEndpoint ==
  [][ev'.op = "subscribe" =>
       IF ev'.body.k = "missing" \/ ev'.body.endpoint = 0
         THEN /\ ev'.status = 400
              /\ pushSubscriptions' = pushSubscriptions
         ELSE /\ ev'.status = 200
              /\ \E i \in 1..Len(pushSubscriptions') :
                   pushSubscriptions'[i].endpoint = ev'.body.endpoint]_vars

\* C16 witness: an object without endpoint has been rejected by a server that
\* holds a subscription.
C16_Witness ==
  /\ ev.op = "subscribe"
  /\ ev.body = Descriptor(0)
  /\ ev.status = 400
  /\ Len(pushSubscriptions) = 1

\* C17: while a fan-out awaits a send, registrations and other fan-outs'
\* prunes leave its copy of the registry as it was taken; a settled send
\* removes from the registry the subscription whose send failed and no other,
\* so one registered meanwhile stays; a registration removes none; no other
\* step writes the registry.
C17_WritersLeaveSnapshotAlone ==
  [][/\ \A y \in timers, x \in timers' :
          (x.id = y.id /\ y.st = "push" /\ x.st = "push") => x.snap = y.snap
     /\ IF PushSettled(ev')
          THEN LET sub == ev'.timer.snap[ev'.timer.idx]
               IN pushSubscriptions' =
                    IF ev'.failed
                      THEN SelectSeq(pushSubscriptions, LAMBDA s : s # sub)
                      ELSE pushSubscriptions
          ELSE IF ev'.op = "subscribe"
            THEN /\ Len(pushSubscriptions') >= Len(pushSubscriptions)
                 /\ SubSeq(pushSubscriptions', 1, Len(pushSubscriptions)) =
                      pushSubscriptions
            ELSE pushSubscriptions' = pushSubscriptions]_vars

\* C17 witness: a fan-out has ended with a failed send while the registry holds
\* a subscription that was registered after the fan-out took its copy.
C17_Witness ==
  /\ ev.op = "done"
  /\ ev.timer.st = "push"
  /\ ev.failed
  /\ \E i \in 1..Len(pushSubscriptions) :
       \A j \in 1..Len(ev.timer.snap) : ev.timer.snap[j] # pushSubscriptions[i]

\* ---- extraction ----

\* inputs of a request: one that trims to nothing, plain words, a bare date
\* phrase, words with a date phrase whose unit is plural or singular
Texts ==
  {Text(r, p) : r \in {"", "call mom"}, p \in {"none", "in 2 hours"}}
    \cup {Text("call mom", "in 1 hour")}

\* the instant the phrase of a text names, counted from the reference time
PhraseSec == 2 * LeadSec
Ahead(phrase) == IF phrase = "in 1 hour" THEN LeadSec ELSE PhraseSec

\* what replace(/in \d+ (hour|hours|minute|minutes|min)/i, '') leaves of the
\* phrase: the alternation takes "hour" before "hours", so the s of a plural
\* unit stays in the title
Leftover(phrase) == IF phrase = "in 2 hours" THEN "s" ELSE "none"

\* what chrono.parse does with a text: it throws, finds nothing, finds a phrase
\* with a date, or finds one without a usable date
Chronos == {"throws", "none", "match", "nodate"}

\* a text without date phrase gives chrono nothing to find
ChronoOutcomes(input) ==
  IF input.phrase = "none" THEN {"throws", "none"} ELSE Chronos

\* what a remote provider answers: a transport error or a status that is not
\* success, no content, content that is not JSON, the JSON null, JSON that is
\* no object, or an object with or without title and dueDate
Resp(kind, title, due) == [kind |-> kind, title |-> title, due |-> due]

Responses ==
  {Resp(k, Text("", "none"), Null) : k \in {"error", "empty", "garbage", "null", "scalar"}}
    \cup {Resp("json", t, d) : t \in {Text("", "none"), Text("Call mom", "none")},
                               d \in {Null, Invalid, Date(PhraseSec)}}

\* what a parse function returns, with the function that built it, or that it threw
Result(by, title, dueDate) ==
  [ok |-> TRUE, by |-> by, title |-> title, dueDate |-> dueDate]

Thrown ==
  [ok |-> FALSE, by |-> "none", title |-> Text("", "none"), dueDate |-> Null]

\* the try block of parseInputLocal at time t: chrono first, the regular
\* expression for "in N hours" when chrono found nothing; zonedTimeToUtc reads
\* the wall clock of chrono's date in DEFAULT_TIMEZONE, which moves the instant
\* by the difference between the server's zone and DEFAULT_TIMEZONE
LocalBody(input, chrono, t) ==
  IF chrono = "throws" THEN Thrown
  ELSE IF chrono = "match"
    THEN Result("local", Text(input.rest, "none"),
                Date(t + Ahead(input.phrase) + cfg.shift))
  ELSE IF chrono = "nodate" THEN Result("local", input, Null)
  ELSE IF input.phrase # "none"
    THEN Result("local", Text(input.rest, Leftover(input.phrase)),
                Date(t + Ahead(input.phrase)))
  ELSE Result("local", input, Null)

\* parseInputLocal without its catch block
parseInputLocalNoCatch(input, chrono, t) ==
  LocalBody(input, chrono, t)

\* parseInputLocal: out is returned as the try block left it
parseInputLocal(input, chrono, t) ==
  LET r == LocalBody(input, chrono, t)
  IN IF r.ok THEN r ELSE Result("local", input, Null)

\* RemoteBody throwing for a dueDate that is no instant
RemoteBodyStrict(by, input, resp) ==
  IF resp.kind \in {"error", "empty", "garbage", "null"} \/ resp.due = Invalid
    THEN Thrown
  ELSE LET title == IF resp.kind = "json" THEN resp.title ELSE Text("", "none")
           due == IF resp.kind = "json" THEN resp.due ELSE Null
       IN Result(by, IF Blank(title) THEN input ELSE title,
                     IF IsDate(due) THEN due ELSE Null)

\* RemoteBody keeping the provider's title only next to a usable dueDate
RemoteBodyDropTitle(by, input, resp) ==
  IF resp.kind \in {"error", "empty", "garbage", "null"} THEN Thrown
  ELSE LET title == IF resp.kind = "json" /\ resp.due # Invalid
                      THEN resp.title ELSE Text("", "none")
           due == IF resp.kind = "json" THEN resp.due ELSE Null
       IN Result(by, IF Blank(title) THEN input ELSE title,
                     IF IsDate(due) THEN due ELSE Null)

\* the try block of parseInputGroq and parseInputOpenAI once the call settled
RemoteBody(by, input, resp) ==
  IF resp.kind \in {"error", "empty", "garbage", "null"} THEN Thrown
  ELSE LET title == IF resp.kind = "json" THEN resp.title ELSE Text("", "none")
           due == IF resp.kind = "json" THEN resp.due ELSE Null
       IN Result(by, IF Blank(title) THEN input ELSE title,
                     IF IsDate(due) THEN due ELSE Null)

\* a request that carries free text: the text, where its parse stands, the
\* parse functions entered and the remote answers received so far, the result
NewParse(input) ==
  [kind |-> "POST", text |-> input, stage |-> "start", tried |-> <<>>,
   seen |-> <<>>, out |-> Thrown]

LocalEntry(p, chrono, t) ==
  [p EXCEPT !.stage = "parsed", !.tried = Append(@, "local"),
            !.out = parseInputLocal(p.text, chrono, t)]

\* parseInputGroq going to the local parser although a key is set
GroqEntrySkip(p, chrono, t) ==
  LocalEntry(p, chrono, t)

\* parseInputGroq up to its await: without a key it returns parseInputLocal
GroqEntry(p, chrono, t) ==
  IF cfg.groqKey
    THEN [p EXCEPT !.stage = "groq", !.tried = Append(@, "groq")]
    ELSE LocalEntry(p, chrono, t)

\* parseInputOpenAI up to its await: without a client it returns parseInputGroq
OpenAIEntry(p, chrono, t) ==
  IF cfg.openai
    THEN [p EXCEPT !.stage = "openai", !.tried = Append(@, "openai")]
    ELSE GroqEntry(p, chrono, t)

\* parseInput: the switch on PARSER_PROVIDER
parseInput(p, chrono, t) ==
  CASE cfg.provider = "openai" -> OpenAIEntry(p, chrono, t)
    [] cfg.provider = "groq" -> GroqEntry(p, chrono, t)
    [] cfg.provider = "local" -> LocalEntry(p, chrono, t)
    [] OTHER -> IF cfg.groqKey THEN GroqEntry(p, chrono, t)
                ELSE LocalEntry(p, chrono, t)

\* POST /api/tasks with input and no title, up to the first await of parseInput
CreateParse(slot, input, chrono) ==
  /\ phase = "running"
  /\ ops < MaxOps
  /\ ops' = ops + 1
  /\ slot \notin DOMAIN reqs
  /\ \A x \in Slots : x < slot => x \in DOMAIN reqs
  /\ chrono \in ChronoOutcomes(input)
  /\ Cardinality(DOMAIN reqs) < MaxParses
  /\ nextId + Cardinality(DOMAIN reqs) <= MaxTasks
  /\ nextTimer + Cardinality(DOMAIN reqs) <= MaxTimers
  /\ reqs' = With(reqs, slot, parseInput(NewParse(input), chrono, now))
  /\ ev' = Idle
  /\ UNCHANGED <<tasks, run, phase, cfg, now, ticks, store, nextId, reminders, timers,
                 nextTimer, lastArmed, pushSubscriptions, nextSub>>

\* openai.chat.completions.create settles: the result, or parseInputGroq
OpenAIDone(slot, resp, chrono) ==
  /\ slot \in DOMAIN reqs
  /\ reqs[slot].kind = "POST"
  /\ reqs[slot].stage = "openai"
  /\ chrono \in ChronoOutcomes(reqs[slot].text)
  /\ LET p == [reqs[slot] EXCEPT !.seen = Append(@, resp)]
         r == RemoteBody("openai", p.text, resp)
     IN reqs' = [reqs EXCEPT ![slot] =
                   IF r.ok THEN [p EXCEPT !.stage = "parsed", !.out = r]
                   ELSE GroqEntry(p, chrono, now)]
  /\ ev' = Idle
  /\ UNCHANGED <<tasks, run, ops, phase, cfg, now, ticks, store, nextId, reminders, timers,
                 nextTimer, lastArmed, pushSubscriptions, nextSub>>

\* axios.post to Groq settles: the result, or parseInputLocal
GroqDone(slot, resp, chrono) ==
  /\ slot \in DOMAIN reqs
  /\ reqs[slot].kind = "POST"
  /\ reqs[slot].stage = "groq"
  /\ chrono \in ChronoOutcomes(reqs[slot].text)
  /\ LET p == [reqs[slot] EXCEPT !.seen = Append(@, resp)]
         r == RemoteBody("groq", p.text, resp)
     IN reqs' = [reqs EXCEPT ![slot] =
                   IF r.ok THEN [p EXCEPT !.stage = "parsed", !.out = r]
                   ELSE LocalEntry(p, chrono, now)]
  /\ ev' = Idle
  /\ UNCHANGED <<tasks, run, ops, phase, cfg, now, ticks, store, nextId, reminders, timers,
                 nextTimer, lastArmed, pushSubscriptions, nextSub>>

\* POST /api/tasks after parseInput: 500 if it threw, 400 for a blank title,
\* else the row is inserted and scheduleReminder(savedTask) runs
CreateParsed(slot) ==
  /\ slot \in DOMAIN reqs
  /\ reqs[slot].kind = "POST"
  /\ reqs[slot].stage = "parsed"
  /\ LET out == reqs[slot].out
         row == TitledRow(out.title, out.dueDate, FALSE)
     IN IF ~out.ok \/ Blank(out.title)
          THEN /\ ev' = Answer("create", NoBody, FALSE, IF out.ok THEN 400 ELSE 500)
               /\ UNCHANGED <<store, nextId, reminders, timers, nextTimer, lastArmed>>
          ELSE /\ store' = With(store, nextId, row)
               /\ nextId' = nextId + 1
               /\ SetSched(scheduleReminder(Sched, Task(nextId, row), FALSE, now))
               /\ ev' = [Event("create", nextId, NoTimer, FALSE, FALSE)
                           EXCEPT !.status = 200]
  /\ reqs' = Without(reqs, slot)
  /\ UNCHANGED <<tasks, run, ops, phase, cfg, now, ticks, pushSubscriptions, nextSub>>

\* environments of the parser: PARSER_PROVIDER, whether the OpenAI client and
\* the Groq key exist, and the seconds between the server's zone and
\* DEFAULT_TIMEZONE
ParseConfigs ==
  [email : {FALSE}, push : {FALSE}, tzOk : {TRUE},
   provider : {"openai", "groq", "local", "auto"},
   openai : BOOLEAN, groqKey : BOOLEAN, shift : {0, -5 * LeadSec}]

InitParse ==
  /\ phase = "init"
  /\ cfg \in ParseConfigs
  /\ now = 0
  /\ ticks = 0
  /\ store = Empty
  /\ nextId = 1
  /\ reminders = Empty
  /\ timers = {}
  /\ nextTimer = 1
  /\ lastArmed = Empty
  /\ pushSubscriptions = <<>>
  /\ nextSub = 1
  /\ ops = 0
  /\ reqs = Empty
  /\ run = [t \in TaskIds |-> 0]
  /\ ev = Idle
  /\ tasks = <<>>

NextParse ==
  \/ StartServer
  \/ \E d \in Steps : Tick(d)
  \/ \E s \in Slots, i \in Texts, c \in Chronos : CreateParse(s, i, c)
  \/ \E s \in Slots, r \in Responses, c \in Chronos :
       OpenAIDone(s, r, c)
  \/ \E s \in Slots, r \in Responses, c \in Chronos :
       GroqDone(s, r, c)
  \/ \E s \in Slots : CreateParsed(s)

\* the create route with free text over every parser environment
SpecParse == InitParse /\ [][NextParse]_vars

\* the create route with free text, where every step the server takes by
\* itself is taken: the database answers, and the OpenAI client settles its
\* call (it gives up a request that gets no answer); axios.post is given no
\* timeout, so the Groq call settles only if Groq answers
SpecParseLive ==
  /\ InitParse
  /\ [][NextParse]_vars
  /\ WF_vars(\E s \in Slots : CreateParsed(s))
  /\ WF_vars(\E s \in Slots, r \in Responses, c \in Chronos : OpenAIDone(s, r, c))

\* the requests that carry free text and are in flight
Parsing == {s \in DOMAIN reqs : reqs[s].kind = "POST"}

Last(seq) == seq[Len(seq)]

\* the parse functions parseInput may enter, in order
CascadeOrder ==
  (IF cfg.provider = "openai" /\ cfg.openai THEN <<"openai">> ELSE <<>>)
    \o (IF cfg.provider # "local" /\ cfg.groqKey THEN <<"groq">> ELSE <<>>)
    \o <<"local">>

\* a remote answer the parse functions take: content that is JSON and not null
Accepted(resp) == resp.kind \in {"json", "scalar"}

C19_ParseNeverThrows ==
  /\ ev.status # 500
  /\ \A s \in Parsing :
       reqs[s].stage = "parsed" =>
         LET p == reqs[s]
         IN /\ p.out.ok
            /\ p.out.dueDate = Null \/ IsDate(p.out.dueDate)
            /\ (p.out.by = "local" /\ p.text.phrase = "none") => p.out.dueDate = Null
            /\ (p.out.by # "local" /\ ~IsDate(Last(p.seen).due)) => p.out.dueDate = Null

\* C19 witness: for a text that trims to nothing both remote providers failed,
\* one with a transport error and one with content that is not JSON, and the
\* parse resolved without a due date.
C19_Witness ==
  \E s \in Parsing :
    /\ reqs[s].stage = "parsed"
    /\ reqs[s].text = Text("", "none")
    /\ Len(reqs[s].seen) = 2
    /\ reqs[s].seen[1].kind = "error"
    /\ reqs[s].seen[2].kind = "garbage"
    /\ reqs[s].out.ok
    /\ reqs[s].out.dueDate = Null

\* C20: every extraction returns: a request that carries free text is answered
\* in the end, also when a remote provider never responds.
C20_ExtractionReturns ==
  \A s \in Slots : (s \in Parsing) ~> (s \notin DOMAIN reqs)

\* the remote answer received last is an object whose dueDate is no instant
BadDateAnswer(p) ==
  /\ Len(p.seen) >= 1
  /\ Last(p.seen).kind = "json"
  /\ Last(p.seen).due = Invalid

C22_BadDateRejectsProvider ==
  \A s \in Parsing :
    LET p == reqs[s]
    IN (p.stage = "parsed" /\ BadDateAnswer(p)) => p.out.by = "local"

\* C22 amended: the step that receives a remote answer whose dueDate is no
\* instant ends the parse: no further parse function is entered and the result
\* is that provider's, without due date.
C22_BadDateEndsCascade ==
  [][\A s \in Parsing :
       (/\ s \in DOMAIN reqs'
        /\ reqs[s].stage \in {"openai", "groq"}
        /\ reqs'[s].seen # reqs[s].seen
        /\ BadDateAnswer(reqs'[s])) =>
         /\ reqs'[s].stage = "parsed"
         /\ reqs'[s].tried = reqs[s].tried
         /\ reqs'[s].out.by = reqs[s].stage
         /\ reqs'[s].out.dueDate = Null]_vars

\* C22 witness: OpenAI answered with a dueDate that is no instant while a Groq
\* key is set, and the parse ended with OpenAI's result.
C22_Witness ==
  \E s \in Parsing :
    /\ reqs[s].stage = "parsed"
    /\ reqs[s].tried = <<"openai">>
    /\ cfg.groqKey
    /\ BadDateAnswer(reqs[s])
    /\ reqs[s].out.by = "openai"

\* the step ends the parse of the request in slot s with the local result
LocalParsed(s) ==
  /\ s \in DOMAIN reqs'
  /\ reqs'[s].kind = "POST"
  /\ reqs'[s].stage = "parsed"
  /\ reqs'[s].out.by = "local"
  /\ s \in DOMAIN reqs => reqs[s].stage # "parsed"

\* C23: a create request that carries free text which is not blank succeeds
\* whatever the providers returned: it is answered 200 and its task is stored.
C23_FreeTextRequestSucceeds ==
  [][\A s \in Parsing :
       (reqs[s].stage = "parsed" /\ s \notin DOMAIN reqs' /\ ~Blank(reqs[s].text)) =>
         /\ ev'.status = 200
         /\ nextId' = nextId + 1
         /\ nextId \in DOMAIN store']_vars

\* C29: for an input with "in N hours" the local extraction that finds a date
\* at reference time T yields T + N hours, and the title without the phrase.
C29_RelativePhrase ==
  [][\A s \in Slots :
       (/\ LocalParsed(s)
        /\ reqs'[s].text.phrase # "none"
        /\ IsDate(reqs'[s].out.dueDate)) =>
         /\ reqs'[s].out.dueDate = Date(now + Ahead(reqs'[s].text.phrase))
         /\ reqs'[s].out.title = Text(reqs'[s].text.rest, "none")]_vars

\* C24: an update or delete for an id that has no row when the store operation
\* runs is answered 404, and leaves the store and the scheduler as they were.
C24_MissingIdAnswers404 ==
  [][ev'.op \in {"missing", "rejected"} =>
       /\ ev'.status = 404
       /\ store' = store
       /\ timers' = timers
       /\ reminders' = reminders]_vars

\* the Timeouts a step arms, and the armed ones it clears without running them
ArmedByStep == {tm \in timers' : tm.st = "armed" /\ tm.id >= nextTimer}
ClearedByStep ==
  {tm \in timers : /\ tm.st = "armed"
                   /\ ev'.timer.id # tm.id
                   /\ \A x \in timers' : x.id # tm.id}

\* C27: a reminder is armed for a task only in the step that follows its
\* completed write, and for the values written; a rejected write arms and
\* cancels nothing.
C27_ScheduleFollowsWrite ==
  [][/\ ev'.op = "rejected" =>
          /\ ArmedByStep = {}
          /\ ClearedByStep = {}
          /\ reminders' = reminders
     /\ phase = "running" =>
          \A tm \in ArmedByStep :
            /\ ev'.op \in {"create", "update"}
            /\ ev'.task = tm.task
            /\ tm.task \in DOMAIN store'
            /\ store'[tm.task].dueDate = Date(tm.due)
            /\ ~store'[tm.task].completed
     /\ \A tm \in ClearedByStep :
          /\ ev'.op \in {"update", "delete"}
          /\ ev'.task = tm.task
          /\ tm.task \in DOMAIN store
          /\ tm.task \in DOMAIN store' => ev'.op = "update"]_vars

\* an update was rejected for a row deleted since its getTask, while another
\* task's reminder is armed
C27_Witness ==
  /\ ev.op = "rejected"
  /\ ev.status = 404
  /\ \E tm \in timers : tm.st = "armed" /\ tm.task \in DOMAIN reminders

\* C30: every armed Timeout is the one the reminders map records under its task
\* id; in particular the end of a delivery in progress does not take away the
\* entry of a reminder scheduled since the delivery began.
C30_ArmedTimerIsRecorded ==
  \A tm \in timers :
    tm.st = "armed" =>
      /\ tm.task \in DOMAIN reminders
      /\ reminders[tm.task] = tm.id

\* ---- edits of the title ----

\* titles a PUT body may carry: none, the empty string, white space, words;
\* and its free text: none, a bare date phrase, plain words
EditTitles == {NoTitle, Text("", "none"), Text(" ", "none"), Text("call dad", "none")}
EditInputs == {NoTitle, Text("", "in 2 hours"), Text("call mom", "none")}

\* !title of the PUT handler: undefined or the empty string
Falsy(title) == title = NoTitle \/ title = Text("", "none")

\* the updates object of the PUT handler for a body with title and input, where
\* PARSER_PROVIDER is local, so that parseInput settles without a remote call
TitledUpdates(existing, title, input, chrono, dueDate, completed, t) ==
  LET parses == input # NoTitle /\ Falsy(title) /\ dueDate = Undefined
      parsed == parseInputLocal(input, chrono, t)
      nextTitle == IF parses THEN parsed.title ELSE title
      nextDue == IF parses THEN parsed.dueDate ELSE dueDate
  IN [Updates(existing, nextDue, completed) EXCEPT
        !.title = IF nextTitle # NoTitle THEN Trim(nextTitle) ELSE existing.title]

\* PUT /api/tasks/:id from parseInput and updateTask on, for a body with
\* title, input and dueDate
EditWrite(slot, title, input, chrono, dueDate) ==
  /\ slot \in DOMAIN reqs
  /\ reqs[slot].kind = "PUT"
  /\ cfg.provider = "local"
  /\ chrono \in (IF input = NoTitle THEN {"none"} ELSE ChronoOutcomes(input))
  /\ PutWrite(slot, TitledUpdates(reqs[slot].existing, title, input, chrono,
                                  dueDate, "undefined", now))

InitEdit ==
  /\ phase = "init"
  /\ cfg = [email |-> FALSE, push |-> FALSE, tzOk |-> TRUE, provider |-> "local",
            openai |-> FALSE, groqKey |-> FALSE, shift |-> 0]
  /\ now = 0
  /\ ticks = 0
  /\ store \in InitStores
  /\ nextId = Cardinality(DOMAIN store) + 1
  /\ reminders = Empty
  /\ timers = {}
  /\ nextTimer = 1
  /\ lastArmed = Empty
  /\ pushSubscriptions = <<>>
  /\ nextSub = 1
  /\ ops = 0
  /\ reqs = Empty
  /\ run = [t \in TaskIds |-> 0]
  /\ ev = Idle
  /\ tasks = <<>>

NextEdit ==
  \/ StartServer
  \/ \E d \in RowDueDates : CreateTask(d)
  \/ \E s \in Slots, id \in TaskIds : UpdateRead(s, id)
  \/ \E s \in Slots, t \in EditTitles, i \in EditInputs, c \in Chronos,
        d \in BodyDueDates : EditWrite(s, t, i, c, d)

\* creates and edits of any body on a server whose parser is the local one
SpecEdit == InitEdit /\ [][NextEdit]_vars

\* C25: every stored task has a title that is not empty, whatever sequence of
\* creates and updates produced it.
C25_StoredTitleNotEmpty ==
  \A t \in DOMAIN store : ~Blank(store[t].title)

\* C28: the title and the due instant a delivery carries are those of the
\* stored task at the moment its Timeout fires.
C28_DeliveryCarriesStoredValues ==
  Started =>
    /\ ev.task \in DOMAIN store
    /\ store[ev.task].title = ev.timer.title
    /\ store[ev.task].dueDate = Date(ev.timer.due)

\* ---- shutdown ----

\* the SIGINT handler: clearTimeout for every entry of the reminders map,
\* reminders.clear(), then db.close is called
Sigint ==
  /\ phase = "running"
  /\ phase' = "closing"
  /\ timers' = {tm \in timers :
                  ~(tm.task \in DOMAIN reminders /\ reminders[tm.task] = tm.id
                    /\ tm.st = "armed")}
  /\ reminders' = Empty
  /\ ev' = Event("sigint", 0, NoTimer, FALSE, FALSE)
  /\ UNCHANGED <<tasks, run, ops, cfg, now, ticks, store, nextId, nextTimer, lastArmed,
                 pushSubscriptions, nextSub, reqs>>

\* the callback of db.close: process.exit(0)
DbClosed ==
  /\ phase = "closing"
  /\ phase' = "exited"
  /\ ev' = Event("exit", 0, NoTimer, FALSE, FALSE)
  /\ UNCHANGED <<tasks, run, ops, cfg, now, ticks, store, nextId, reminders, timers,
                 nextTimer, lastArmed, pushSubscriptions, nextSub, reqs>>

InitShutdown ==
  /\ phase = "init"
  /\ cfg = [email |-> TRUE, push |-> FALSE, tzOk |-> TRUE]
  /\ now = 0
  /\ ticks = 0
  /\ store \in InitStores
  /\ nextId = Cardinality(DOMAIN store) + 1
  /\ reminders = Empty
  /\ timers = {}
  /\ nextTimer = 1
  /\ lastArmed = Empty
  /\ pushSubscriptions = <<>>
  /\ nextSub = 1
  /\ ops = 0
  /\ reqs = Empty
  /\ run = [t \in TaskIds |-> 0]
  /\ ev = Idle
  /\ tasks = <<>>

NextShutdown ==
  \/ StartServer
  \/ \E d \in Steps : Tick(d)
  \/ \E d \in RowDueDates : CreateTask(d)
  \/ \E tm \in timers : FireStart(tm)
  \/ \E tm \in timers, ok \in BOOLEAN : EmailDone(tm, ok)
  \/ Sigint
  \/ DbClosed

\* a server with the email channel that is sent SIGINT
SpecShutdown == InitShutdown /\ [][NextShutdown]_vars

\* C26: from SIGINT on the reminders map is empty and no Timeout is armed, no
\* delivery starts, and the process does not exit while a delivery is in
\* progress.
C26_GracefulShutdown ==
  /\ phase \in {"closing", "exited"} =>
       /\ reminders = Empty
       /\ \A tm \in timers : tm.st # "armed"
  /\ Started => phase = "running"
  /\ phase = "exited" => \A tm \in timers : tm.st \notin {"email", "push"}

\* C31: a written update whose body supplies completed only leaves the title
\* and the due date of the row as they were stored just before its write.
C31_UpdateKeepsOtherFields ==
  [][\A s \in Slots, c \in {"true", "false"} :
       (UpdateWrite(s, Undefined, c) /\ ev'.op = "update") =>
         /\ store'[reqs[s].id].title = store[reqs[s].id].title
         /\ store'[reqs[s].id].dueDate = store[reqs[s].id].dueDate]_vars

\* ---- the frontend's task list ----

RECURSIVE Listing(_)
\* the body of GET /api/tasks for the ids that have a row: newest first
Listing(ids) ==
  IF ids = {} THEN <<>>
  ELSE LET m == CHOOSE x \in ids : \A y \in ids : y <= x
       IN <<m>> \o Listing(ids \ {m})

\* a response on its way to the frontend: of the polling fetch, of a create, of
\* a delete
Response(kind, id, data) == [kind |-> kind, id |-> id, data |-> data]

\* fetchTasks up to its response: GET /api/tasks is answered from the table
FetchSent(slot) ==
  /\ phase = "running"
  /\ ops < MaxOps
  /\ ops' = ops + 1
  /\ slot \notin DOMAIN reqs
  /\ reqs' = With(reqs, slot, Response("list", 0, Listing(DOMAIN store)))
  /\ ev' = Idle
  /\ UNCHANGED <<tasks, run, phase, cfg, now, ticks, store, nextId, reminders, timers,
                 nextTimer, lastArmed, pushSubscriptions, nextSub>>

\* fetchTasks from its response on: setTasks(data)
FetchDone(slot) ==
  /\ slot \in DOMAIN reqs
  /\ reqs[slot].kind = "list"
  /\ tasks' = reqs[slot].data
  /\ reqs' = Without(reqs, slot)
  /\ ev' = Idle
  /\ UNCHANGED <<run, ops, phase, cfg, now, ticks, store, nextId, reminders, timers,
                 nextTimer, lastArmed, pushSubscriptions, nextSub>>

\* createTask of the frontend up to its response: POST /api/tasks inserts the
\* row, schedules its reminder and answers with the saved task
CreateSent(slot, dueDate) ==
  /\ phase = "running"
  /\ ops < MaxOps
  /\ ops' = ops + 1
  /\ slot \notin DOMAIN reqs
  /\ nextId <= MaxTasks
  /\ LET row == Row(dueDate, FALSE)
         task == Task(nextId, row)
     IN /\ CanSchedule(task)
        /\ store' = With(store, nextId, row)
        /\ SetSched(scheduleReminder(Sched, task, FALSE, now))
        /\ ev' = Event("create", nextId, NoTimer, FALSE, FALSE)
  /\ nextId' = nextId + 1
  /\ reqs' = With(reqs, slot, Response("created", nextId, <<>>))
  /\ UNCHANGED <<tasks, run, phase, cfg, now, ticks, pushSubscriptions, nextSub>>

\* createTask from its response on: setTasks(prev => [...prev, newTask])
CreateDone(slot) ==
  /\ slot \in DOMAIN reqs
  /\ reqs[slot].kind = "created"
  /\ tasks' = Append(tasks, reqs[slot].id)
  /\ reqs' = Without(reqs, slot)
  /\ ev' = Idle
  /\ UNCHANGED <<run, ops, phase, cfg, now, ticks, store, nextId, reminders, timers,
                 nextTimer, lastArmed, pushSubscriptions, nextSub>>

\* deleteTask of the frontend up to its response, for a task of its list:
\* DELETE /api/tasks/:id removes the row and cancels the reminder
DeleteSent(slot, id) ==
  /\ phase = "running"
  /\ ops < MaxOps
  /\ ops' = ops + 1
  /\ slot \notin DOMAIN reqs
  /\ \E i \in 1..Len(tasks) : tasks[i] = id
  /\ id \in DOMAIN store
  /\ LET c == cancelReminder(timers, reminders, id)
     IN /\ store' = Without(store, id)
        /\ timers' = c.timers
        /\ reminders' = c.reminders
        /\ ev' = Event("delete", id, NoTimer, id \in DOMAIN reminders, FALSE)
  /\ reqs' = With(reqs, slot, Response("deleted", id, <<>>))
  /\ UNCHANGED <<tasks, run, phase, cfg, now, ticks, nextId, nextTimer, lastArmed,
                 pushSubscriptions, nextSub>>

\* deleteTask from its response on: setTasks(prev => prev.filter(t => t.id !== taskId))
DeleteDone(slot) ==
  /\ slot \in DOMAIN reqs
  /\ reqs[slot].kind = "deleted"
  /\ tasks' = SelectSeq(tasks, LAMBDA t : t # reqs[slot].id)
  /\ reqs' = Without(reqs, slot)
  /\ ev' = Idle
  /\ UNCHANGED <<run, ops, phase, cfg, now, ticks, store, nextId, reminders, timers,
                 nextTimer, lastArmed, pushSubscriptions, nextSub>>

InitClient ==
  /\ phase = "init"
  /\ cfg = [email |-> FALSE, push |-> FALSE, tzOk |-> TRUE]
  /\ now = 0
  /\ ticks = 0
  /\ store \in InitStores
  /\ nextId = Cardinality(DOMAIN store) + 1
  /\ reminders = Empty
  /\ timers = {}
  /\ nextTimer = 1
  /\ lastArmed = Empty
  /\ pushSubscriptions = <<>>
  /\ nextSub = 1
  /\ ops = 0
  /\ reqs = Empty
  /\ run = [t \in TaskIds |-> 0]
  /\ ev = Idle
  /\ tasks = <<>>

NextClient ==
  \/ StartServer
  \/ \E s \in Slots : FetchSent(s)
  \/ \E s \in Slots : FetchDone(s)
  \/ \E s \in Slots, d \in RowDueDates : CreateSent(s, d)
  \/ \E s \in Slots : CreateDone(s)
  \/ \E s \in Slots, id \in TaskIds : DeleteSent(s, id)
  \/ \E s \in Slots : DeleteDone(s)

\* the frontend's list under its polling fetch and its own creates and deletes
SpecClient == InitClient /\ [][NextClient]_vars

\* C32: the frontend's task list never holds two entries with the same task id.
C32_ListIdsUnique ==
  \A i, j \in 1..Len(tasks) : i # j => tasks[i] # tasks[j]

====
